---- MODULE Spec2Model ----
(***************************************************************************)
(* The idobjects DID registry (src/idobjects_did.py, class IdObjectsDID):  *)
(* create_did, verify_ownership and resolve_did over the in-memory         *)
(* registry _did_registry; then generate_did_key (src/did_generator.py),   *)
(* the DataObject (src/data_object.py) and its PDF container               *)
(* (src/pdf_data_object.py).                                               *)
(*                                                                         *)
(* Strings are modelled as pairs <<tag, payload>>: the tag is the fixed    *)
(* textual part (a prefix or an alphabet), the payload the varying part.   *)
(* A key pair is identified by a number k: its raw public bytes are        *)
(* <<"pub", k>> and the hex of its raw private bytes is <<"hex", k>>.     *)
(***************************************************************************)
EXTENDS Integers, Sequences, FiniteSets, TLC

\* Number of key pairs Ed25519PrivateKey.generate() can yield.
NumKeys == 3
\* Number of values of the truncated hash sha256(pub)[:8].
UidSpace == 2
\* Number of create_did calls in a run (the clock stops there).
MaxCalls == 3

VARIABLES
    did_registry,   \* self._did_registry: DID -> entry
    clock,          \* time.time(), advanced by every create_did call
    created,        \* history: the create_did calls that returned, in order
    ret,            \* what the last call returned or raised
    pc,             \* per thread: the statement of create_did it is at
    frame,          \* per thread: the locals of its create_did call
    key_dids,       \* history: what the generate_did_key calls returned
    child_dids,     \* history: what the create_child_did calls returned
    data_obj,       \* the DataObject under study (its fields)
    data_owner,     \* history: the owner_did that create was called with
    data_ret,       \* what the last method called on data_obj returned
    utcnow,         \* datetime.utcnow(), in seconds
    pdf_file,       \* the PDF file handed to verify_pdf_data_object
    pdf_result,     \* what verify_pdf_data_object returned for it
    multibase       \* a key's bytes, their multibase text and its decoding

\* The state of the DID registry and of its callers.
registry_vars == <<did_registry, clock, created, ret, pc, frame>>

\* The state of the DataObject side (src/data_object.py).
object_vars == <<data_obj, data_owner, data_ret, utcnow>>

\* The state of the PDF side (src/pdf_data_object.py).
pdf_vars == <<pdf_file, pdf_result>>

vars == <<registry_vars, key_dids, child_dids, object_vars, pdf_vars, multibase>>

\* The two callers that share one registry object.
Threads == {"t1", "t2"}

Keys == 1..NumKeys

None == <<"None", 0>>

\* No DataObject has been constructed yet.
NoObject == [state |-> "absent"]

\* No method of data_obj has been called since it last changed.
NoCall == [op |-> "none"]

\* No key bytes have been taken yet.
NoBytes == [step |-> "none"]

\* No file is at pdf_path yet.
NoFile == [exists |-> FALSE]

\* verify_pdf_data_object has not been called yet.
NoResult == [valid |-> FALSE, error |-> "not called", steps |-> <<>>]

namespace == "did:idobjects:main"

\* The DIDs of this registry's namespace, one per unique id.
NamespaceDids == {<<namespace, u>> : u \in 0..(UidSpace - 1)}

\* A DID of another method, as a caller may pass for parent_did.
ForeignDid == <<"did:key", 0>>

DidStrings == NamespaceDids \cup {ForeignDid}

\* A slip that serialises the private key where the public key is meant.
public_bytes_of_private_key(k) == <<"hex", k>>

\* public_key.public_bytes(Raw, Raw), lines 63-66.
public_bytes(k) == <<"pub", k>>

\* private_key.private_bytes(Raw, Raw, NoEncryption()).hex(), lines 128-132.
private_bytes_hex(k) == <<"hex", k>>

\* A string that bytes.fromhex / from_private_bytes rejects.
BadHex == <<"nothex", 0>>

\* base58.b58encode: the text of a byte string in the base58 alphabet.
b58encode(bytes) == <<"b58", bytes>>

\* base58.b58decode raises ValueError on a character outside the alphabet.
b58decode_raises(text) == text[1] # "b58"

b58decode(text) == text[2]

\* sha256(public_key_bytes).digest()[:8], base58-encoded: many keys per id.
generate_unique_id(public_key_bytes) == public_key_bytes[2] % UidSpace

encode_multibase(key_bytes) == <<"z", b58encode(key_bytes)>>

\* Ed25519 signing: a signature verifies under the signer's public key, for
\* the signed message only.
sign(private_key, message) ==
    [key |-> public_bytes(private_key[2]), msg |-> message]

verify(public_key, signature, message) ==
    /\ signature.key = public_key
    /\ signature.msg = message

\* json.dumps(..., sort_keys=True) of the proof without its signature: the
\* fields by name, whatever their insertion order.
canonical_message(proof) == [f \in DOMAIN proof \ {"signature"} |-> proof[f]]

\* The proof object with no child recorded in it.
unsigned_proof_without_child(child_did, now) ==
    [type |-> "Ed25519Signature2018",
     created |-> now,
     verificationMethod |-> <<child_did, "#parent-ownership">>,
     proofPurpose |-> "parentOwnership",
     child |-> None]

unsigned_proof(child_did, now) ==
    [type |-> "Ed25519Signature2018",
     created |-> now,
     verificationMethod |-> <<child_did, "#parent-ownership">>,
     proofPurpose |-> "parentOwnership",
     child |-> child_did]

create_ownership_proof(parent_private_key, child_did, now) ==
    LET proof == unsigned_proof(child_did, now)
        message == canonical_message(proof)
        signature == sign(parent_private_key, message)
    IN  proof @@ [signature |-> b58encode(signature)]

did_document(did, encoded_public_key) ==
    [id |-> did,
     controller |-> did,
     children |-> <<>>,
     verificationMethod |->
        << [id |-> <<did, "#keys-1">>,
            type |-> "Ed25519VerificationKey2018",
            controller |-> did,
            publicKeyMultibase |-> encoded_public_key] >>,
     authentication |-> << <<did, "#keys-1">> >>,
     assertionMethod |-> << <<did, "#keys-1">> >>]

\* Python truthiness of the two optional arguments (line 103).
has_parent(parent_did, parent_private_key) ==
    parent_did # None /\ parent_private_key # None

\* Ed25519PrivateKey.from_private_bytes(bytes.fromhex(s)) raises ValueError.
from_private_bytes_raises(parent_private_key) == parent_private_key[1] # "hex"

stub_entry == [children |-> <<>>]

\* Line 105: the assignment of an entry with no document.
set_parent_entry(registry, parent_did) ==
    (parent_did :> stub_entry) @@ registry

\* Lines 104-105: an unregistered parent_did gets an entry with no document.
with_parent_entry(registry, parent_did) ==
    IF parent_did \in DOMAIN registry
    THEN registry
    ELSE set_parent_entry(registry, parent_did)

\* Line 117: append the new DID to the parent's children list.
append_child(registry, parent_did, did) ==
    [registry EXCEPT ![parent_did].children = Append(@, did)]

\* Lines 120-123: store the new DID, whatever was stored under it before.
store_did(registry, did, document) ==
    (did :> [document |-> document, children |-> <<>>]) @@ registry

\* The keys generate_keypair has not yielded yet.
fresh_keys ==
    Keys \ ( {created[i].key : i \in 1..Len(created)}
             \cup {frame[t].key : t \in {u \in Threads : pc[u] # "idle"}}
             \cup {key_dids[i].key : i \in 1..Len(key_dids)} )

\* The private keys a caller holds: those returned by earlier calls.
returned_private_keys == {created[i].private_key : i \in 1..Len(created)}

ParentDidArgs == {None} \cup DidStrings

ParentKeyArgs == {None, BadHex} \cup returned_private_keys

create_did(k, parent_did, parent_private_key) ==
    LET public_key_bytes == public_bytes(k)
        unique_id == generate_unique_id(public_key_bytes)
        did == <<namespace, unique_id>>
        encoded_public_key == encode_multibase(public_key_bytes)
        document == did_document(did, encoded_public_key)
    IN
    /\ clock < MaxCalls
    /\ clock' = clock + 1
    /\ UNCHANGED <<pc, frame>>
    /\ UNCHANGED <<multibase, child_dids, key_dids, object_vars, pdf_vars>>
    /\ IF ~has_parent(parent_did, parent_private_key)
       THEN /\ did_registry' = store_did(did_registry, did, document)
            /\ created' = Append(created,
                    [did |-> did, key |-> k, parent_did |-> parent_did,
                     parent_private_key |-> parent_private_key,
                     document |-> document,
                     private_key |-> private_bytes_hex(k)])
            /\ ret' = [op |-> "create_did", parent_did |-> parent_did,
                       parent_private_key |-> parent_private_key,
                       outcome |-> "returned", did |-> did]
       ELSE IF from_private_bytes_raises(parent_private_key)
       THEN /\ did_registry' = with_parent_entry(did_registry, parent_did)
            /\ created' = created
            /\ ret' = [op |-> "create_did", parent_did |-> parent_did,
                       parent_private_key |-> parent_private_key,
                       outcome |-> "ValueError", did |-> None]
       ELSE LET ownership_proof ==
                    create_ownership_proof(parent_private_key, did, clock)
                child_document == document @@ [proof |-> ownership_proof]
            IN  /\ did_registry' =
                     store_did(
                        append_child(
                            with_parent_entry(did_registry, parent_did),
                            parent_did, did),
                        did, child_document)
                /\ created' = Append(created,
                        [did |-> did, key |-> k, parent_did |-> parent_did,
                         parent_private_key |-> parent_private_key,
                         document |-> child_document,
                         private_key |-> private_bytes_hex(k)])
                /\ ret' = [op |-> "create_did", parent_did |-> parent_did,
                           parent_private_key |-> parent_private_key,
                           outcome |-> "returned", did |-> did]

idle_frame ==
    [key |-> 0, parent_did |-> None, parent_private_key |-> None,
     did |-> None, document |-> did_document(None, None),
     parent_missing |-> FALSE]

CreateDid ==
    \E k \in fresh_keys, parent_did \in ParentDidArgs,
       parent_private_key \in ParentKeyArgs :
        create_did(k, parent_did, parent_private_key)

\* verify_ownership: "True", "False", or the exception that escapes it.
verify_ownership(child_did, parent_did) ==
    IF child_did \notin DOMAIN did_registry THEN "False"
    ELSE IF "document" \notin DOMAIN did_registry[child_did] THEN "KeyError"
    ELSE LET child_doc == did_registry[child_did].document IN
    IF "proof" \notin DOMAIN child_doc THEN "False"
    ELSE LET proof == child_doc.proof IN
    IF proof.type # "Ed25519Signature2018" \/ proof.child # child_did
    THEN "False"
    ELSE IF parent_did \notin DOMAIN did_registry THEN "False"
    ELSE IF "document" \notin DOMAIN did_registry[parent_did] THEN "KeyError"
    ELSE LET parent_doc == did_registry[parent_did].document
             methods == SelectSeq(parent_doc.verificationMethod,
                            LAMBDA vm : vm.type = "Ed25519VerificationKey2018")
         IN
    IF methods = <<>> THEN "False"
    ELSE LET parent_pub_key == b58decode(methods[1].publicKeyMultibase[2])
             message == canonical_message(proof)
         IN
    IF b58decode_raises(proof.signature) THEN "ValueError"
    ELSE IF verify(parent_pub_key, b58decode(proof.signature), message)
         THEN "True"
         ELSE "False"

\* resolve_did: the document returned, or the exception raised.
resolve_did(did) ==
    IF did[1] # namespace
    THEN [outcome |-> "ValueError"]
    ELSE IF did \in DOMAIN did_registry
    THEN IF "document" \notin DOMAIN did_registry[did]
         THEN [outcome |-> "KeyError"]
         ELSE [outcome |-> "returned",
               didDocument |->
                    [did_registry[did].document EXCEPT
                        !.children = did_registry[did].children]]
    ELSE [outcome |-> "returned",
          didDocument |-> [id |-> did, error |-> "DID not found in registry"]]

Init ==
    /\ did_registry = <<>>
    /\ clock = 0
    /\ created = <<>>
    /\ ret = [op |-> "init", parent_did |-> None,
              parent_private_key |-> None, outcome |-> "returned",
              did |-> None]
    /\ pc = [t \in Threads |-> "idle"]
    /\ frame = [t \in Threads |-> idle_frame]
    /\ key_dids = <<>>
    /\ child_dids = <<>>
    /\ data_obj = NoObject
    /\ data_owner = None
    /\ data_ret = NoCall
    /\ utcnow = 0
    /\ pdf_file = NoFile
    /\ pdf_result = NoResult
    /\ multibase = NoBytes

Next == CreateDid

Spec == Init /\ [][Next]_vars

(***************************************************************************)
(* Properties of the registry under Spec.                                  *)
(***************************************************************************)

\* A DID that create_did stored with its document (lines 120-123).
issued(did) ==
    /\ did \in DOMAIN did_registry
    /\ "document" \in DOMAIN did_registry[did]

\* The create_did calls that returned a child of parent_did, oldest first.
children_created(parent_did) ==
    LET calls == SelectSeq(created, LAMBDA c :
                    /\ has_parent(c.parent_did, c.parent_private_key)
                    /\ c.parent_did = parent_did)
    IN  [i \in 1..Len(calls) |-> calls[i].did]

IsPrefix(s, t) ==
    /\ Len(s) <= Len(t)
    /\ \A i \in 1..Len(s) : s[i] = t[i]

\* C1: a child created under a registered parent P with the private key
\* returned for P verifies as owned by P, in this and every later state.
C1_OwnershipHolds ==
    \A i \in 1..Len(created), j \in 1..Len(created) :
        ( /\ i < j
          /\ created[j].parent_did = created[i].did
          /\ created[j].parent_private_key = created[i].private_key )
        => verify_ownership(created[j].did, created[i].did) = "True"

\* C2: a child created with parent_did = P, whatever key came with it, does
\* not verify as owned by any DID other than P.
C2_NonForgery ==
    \A j \in 1..Len(created) :
        has_parent(created[j].parent_did, created[j].parent_private_key)
        => \A other \in DidStrings \ {created[j].parent_did} :
                verify_ownership(created[j].did, other) = "False"

\* C4: create_did naming a parent_did that is not registered fails with
\* UnknownParentError and leaves the registry as it was.  Stated for calls
\* that pass a parent_did together with a well-formed private key.
C4_UnknownParentFails ==
    [][ ( /\ clock' # clock
          /\ has_parent(ret'.parent_did, ret'.parent_private_key)
          /\ ~from_private_bytes_raises(ret'.parent_private_key)
          /\ ret'.parent_did \notin DOMAIN did_registry )
        => ( /\ ret'.outcome = "UnknownParentError"
             /\ did_registry' = did_registry ) ]_vars

\* C5: verify_ownership returns a boolean for every pair of DIDs, and false
\* when a DID has no issued document, the child has no proof, or the proof
\* names another child.
C5_VerifyNeverRaises ==
    \A child_did \in DidStrings, parent_did \in DidStrings :
        /\ verify_ownership(child_did, parent_did) \in {"True", "False"}
        /\ (~issued(child_did) \/ ~issued(parent_did))
            => verify_ownership(child_did, parent_did) = "False"
        /\ ( /\ issued(child_did)
             /\ "proof" \notin DOMAIN did_registry[child_did].document )
            => verify_ownership(child_did, parent_did) = "False"
        /\ ( /\ issued(child_did)
             /\ "proof" \in DOMAIN did_registry[child_did].document
             /\ did_registry[child_did].document.proof.child # child_did )
            => verify_ownership(child_did, parent_did) = "False"

\* C6: resolve_did of a DID with no issued document returns a document
\* carrying the not-found marker.  Stated for the DIDs of the registry's own
\* namespace, among them a DID only named as a parent; for a DID of another
\* namespace line 229 raises ValueError in every state.
C6_ResolveUnknownReturns ==
    \A did \in NamespaceDids :
        ~issued(did)
        => /\ resolve_did(did).outcome = "returned"
           /\ "error" \in DOMAIN resolve_did(did).didDocument

\* C7: resolve_did of an issued DID returns its stored document with the
\* children created under it so far, in creation order.
C7_ResolveLiveChildren ==
    \A did \in DidStrings :
        issued(did)
        => /\ resolve_did(did).outcome = "returned"
           /\ resolve_did(did).didDocument.children = children_created(did)
           /\ [resolve_did(did).didDocument EXCEPT !.children = <<>>]
                = did_registry[did].document

\* C8: an issued DID keeps its document for ever and its children list only
\* grows at the end, also when a new key has the unique id of an old one.
C8_EntriesNeverOverwritten ==
    [][ \A did \in DidStrings :
            issued(did)
            => /\ issued(did)'
               /\ did_registry'[did].document = did_registry[did].document
               /\ IsPrefix(did_registry[did].children,
                           did_registry'[did].children) ]_vars

\* The strings an entry holds: DIDs, key bytes and the key of a signature.
strings_of_document(document) ==
    {document.id, document.controller}
    \cup UNION { {vm.id[1], vm.controller, b58decode(vm.publicKeyMultibase[2])}
                 : vm \in {document.verificationMethod[i]
                           : i \in 1..Len(document.verificationMethod)} }
    \cup {document.authentication[i][1] : i \in 1..Len(document.authentication)}
    \cup {document.assertionMethod[i][1] : i \in 1..Len(document.assertionMethod)}
    \cup {document.children[i] : i \in 1..Len(document.children)}
    \cup IF "proof" \in DOMAIN document
         THEN {document.proof.child, document.proof.verificationMethod[1],
               b58decode(document.proof.signature).key,
               b58decode(document.proof.signature).msg.child,
               b58decode(document.proof.signature).msg.verificationMethod[1]}
         ELSE {}

strings_of_entry(entry) ==
    {entry.children[i] : i \in 1..Len(entry.children)}
    \cup IF "document" \in DOMAIN entry
         THEN strings_of_document(entry.document)
         ELSE {}

PrivateKeyStrings == {private_bytes_hex(k) : k \in Keys}

\* C10: no registry entry (document, proof, children list) holds a private
\* key, neither the one generated for the DID nor the parent's.
C10_NoPrivateKeyStored ==
    \A did \in DOMAIN did_registry :
        strings_of_entry(did_registry[did]) \cap PrivateKeyStrings = {}

\* A child with a proof signed by a supplied parent key is registered and
\* the call has returned the child's private key.
C10_Witness ==
    /\ ret.outcome = "returned"
    /\ ret.parent_private_key \in PrivateKeyStrings
    /\ issued(ret.did)
    /\ "proof" \in DOMAIN did_registry[ret.did].document
    /\ created[Len(created)].private_key \in PrivateKeyStrings

(***************************************************************************)
(* Tampering.  create_did returns the very document object it stores       *)
(* (lines 120-127), so a caller can change the stored proof in place.      *)
(***************************************************************************)

\* The values a caller may write over one field of a stored proof: another
\* value of the field's type, for the signature also a text that is not
\* base58.
tampered_values(proof, field) ==
    CASE field = "child" -> DidStrings
      [] field = "type" -> {"Ed25519Signature2018", "JsonWebSignature2020"}
      [] field = "created" -> 0..MaxCalls
      [] field = "verificationMethod" ->
            {<<d, "#parent-ownership">> : d \in DidStrings}
      [] field = "proofPurpose" -> {"parentOwnership", "assertionMethod"}
      [] field = "signature" ->
            {<<alphabet, sign(private_bytes_hex(k), canonical_message(proof))>>
                : alphabet \in {"b58", "notb58"}, k \in Keys}

ProofFields ==
    {"type", "created", "verificationMethod", "proofPurpose", "child",
     "signature"}

tamper_proof(did, field, value) ==
    /\ issued(did)
    /\ "proof" \in DOMAIN did_registry[did].document
    /\ value # did_registry[did].document.proof[field]
    /\ did_registry' =
            [did_registry EXCEPT ![did].document.proof[field] = value]
    /\ ret' = [op |-> "tamper", parent_did |-> None,
               parent_private_key |-> None, outcome |-> "returned",
               did |-> did]
    /\ UNCHANGED <<clock, created, pc, frame>>
    /\ UNCHANGED <<multibase, child_dids, key_dids, object_vars, pdf_vars>>

\* The DIDs whose stored document carries a proof.
dids_with_proof ==
    {did \in DOMAIN did_registry :
        /\ "document" \in DOMAIN did_registry[did]
        /\ "proof" \in DOMAIN did_registry[did].document}

TamperProof ==
    \E did \in dids_with_proof, field \in ProofFields :
        \E value \in tampered_values(did_registry[did].document.proof, field) :
            tamper_proof(did, field, value)

NextTamper ==
    \/ (ret.op # "tamper" /\ CreateDid)
    \/ (ret.op # "tamper" /\ TamperProof)

SpecTamper == Init /\ [][NextTamper]_vars

\* C3: once the stored proof of a child created under P (with P's key) is
\* changed in its child field, its signature or any other signed field,
\* verify_ownership(child, P) returns false.
C3_TamperDetected ==
    \A i \in 1..Len(created), j \in 1..Len(created) :
        LET child_did == created[j].did
            as_issued == created[j].document
        IN  ( /\ i < j
              /\ created[j].parent_did = created[i].did
              /\ created[j].parent_private_key = created[i].private_key
              /\ issued(child_did)
              /\ "proof" \in DOMAIN did_registry[child_did].document
              /\ did_registry[child_did].document.proof # as_issued.proof
              /\ [did_registry[child_did].document
                    EXCEPT !.proof = as_issued.proof] = as_issued )
            => verify_ownership(child_did, created[i].did) = "False"

(***************************************************************************)
(* Two threads calling create_did on one registry, one statement at a      *)
(* time.  Statements that touch only locals are taken with the next        *)
(* statement that reads or writes the registry.                            *)
(***************************************************************************)

\* Lines 60-103: the key pair, the DID, the document, the test of the
\* arguments.
Begin(t) ==
    /\ pc[t] = "idle"
    /\ clock < MaxCalls
    /\ \E k \in fresh_keys, parent_did \in ParentDidArgs,
          parent_private_key \in ParentKeyArgs :
        LET public_key_bytes == public_bytes(k)
            did == <<namespace, generate_unique_id(public_key_bytes)>>
            document == did_document(did, encode_multibase(public_key_bytes))
        IN  /\ frame' = [frame EXCEPT ![t] =
                    [key |-> k, parent_did |-> parent_did,
                     parent_private_key |-> parent_private_key,
                     did |-> did, document |-> document,
                     parent_missing |-> FALSE]]
            /\ pc' = [pc EXCEPT ![t] =
                    IF has_parent(parent_did, parent_private_key)
                    THEN "check_parent" ELSE "store"]
    /\ clock' = clock + 1
    /\ UNCHANGED <<did_registry, created, ret>>
    /\ UNCHANGED <<multibase, child_dids, key_dids, object_vars, pdf_vars>>

\* Line 104: the test of the parent's entry.
CheckParent(t) ==
    /\ pc[t] = "check_parent"
    /\ frame' = [frame EXCEPT ![t].parent_missing =
                    frame[t].parent_did \notin DOMAIN did_registry]
    /\ pc' = [pc EXCEPT ![t] =
                IF frame[t].parent_did \notin DOMAIN did_registry
                THEN "add_parent" ELSE "sign"]
    /\ UNCHANGED <<did_registry, clock, created, ret>>
    /\ UNCHANGED <<multibase, child_dids, key_dids, object_vars, pdf_vars>>

\* Line 105: the assignment the test led to.
AddParent(t) ==
    /\ pc[t] = "add_parent"
    /\ did_registry' = set_parent_entry(did_registry, frame[t].parent_did)
    /\ pc' = [pc EXCEPT ![t] = "sign"]
    /\ UNCHANGED <<clock, created, ret, frame>>
    /\ UNCHANGED <<multibase, child_dids, key_dids, object_vars, pdf_vars>>

\* Lines 108-114: the parent key, the proof, the proof put in the document.
SignProof(t) ==
    /\ pc[t] = "sign"
    /\ IF from_private_bytes_raises(frame[t].parent_private_key)
       THEN /\ pc' = [pc EXCEPT ![t] = "idle"]
            /\ frame' = [frame EXCEPT ![t] = idle_frame]
            /\ ret' = [op |-> "create_did",
                       parent_did |-> frame[t].parent_did,
                       parent_private_key |-> frame[t].parent_private_key,
                       outcome |-> "ValueError", did |-> None]
       ELSE /\ pc' = [pc EXCEPT ![t] = "append"]
            /\ frame' = [frame EXCEPT ![t].document =
                    @ @@ [proof |-> create_ownership_proof(
                                        frame[t].parent_private_key,
                                        frame[t].did, clock)]]
            /\ ret' = ret
    /\ UNCHANGED <<did_registry, clock, created>>
    /\ UNCHANGED <<multibase, child_dids, key_dids, object_vars, pdf_vars>>

\* Line 117.
AppendChild(t) ==
    /\ pc[t] = "append"
    /\ did_registry' =
            append_child(did_registry, frame[t].parent_did, frame[t].did)
    /\ pc' = [pc EXCEPT ![t] = "store"]
    /\ UNCHANGED <<clock, created, ret, frame>>
    /\ UNCHANGED <<multibase, child_dids, key_dids, object_vars, pdf_vars>>

\* Lines 120-123.
StoreDid(t) ==
    /\ pc[t] = "store"
    /\ did_registry' = store_did(did_registry, frame[t].did, frame[t].document)
    /\ pc' = [pc EXCEPT ![t] = "done"]
    /\ UNCHANGED <<clock, created, ret, frame>>
    /\ UNCHANGED <<multibase, child_dids, key_dids, object_vars, pdf_vars>>

\* Lines 125-133.
Return(t) ==
    /\ pc[t] = "done"
    /\ created' = Append(created,
            [did |-> frame[t].did, key |-> frame[t].key,
             parent_did |-> frame[t].parent_did,
             parent_private_key |-> frame[t].parent_private_key,
             document |-> frame[t].document,
             private_key |-> private_bytes_hex(frame[t].key)])
    /\ ret' = [op |-> "create_did", parent_did |-> frame[t].parent_did,
               parent_private_key |-> frame[t].parent_private_key,
               outcome |-> "returned", did |-> frame[t].did]
    /\ pc' = [pc EXCEPT ![t] = "idle"]
    /\ frame' = [frame EXCEPT ![t] = idle_frame]
    /\ UNCHANGED <<did_registry, clock>>
    /\ UNCHANGED <<multibase, child_dids, key_dids, object_vars, pdf_vars>>

NextThreads ==
    \E t \in Threads :
        \/ Begin(t)
        \/ CheckParent(t)
        \/ AddParent(t)
        \/ SignProof(t)
        \/ AppendChild(t)
        \/ StoreDid(t)
        \/ Return(t)

SpecThreads == Init /\ [][NextThreads]_vars

\* The DIDs in the children list of an entry.
children_of(did) ==
    {did_registry[did].children[i] : i \in 1..Len(did_registry[did].children)}

\* C9: when two create_did calls naming the same parent_did have both
\* finished, both new DIDs are in the parent's children list.  Stated for
\* new DIDs other than the parent's own, so that no entry of the registry is
\* stored twice.
C9_NoLostChild ==
    \A t \in Threads, u \in Threads :
        ( /\ t # u
          /\ pc[t] = "done"
          /\ pc[u] = "done"
          /\ has_parent(frame[t].parent_did, frame[t].parent_private_key)
          /\ has_parent(frame[u].parent_did, frame[u].parent_private_key)
          /\ frame[t].parent_did = frame[u].parent_did
          /\ frame[t].did # frame[t].parent_did
          /\ frame[u].did # frame[t].parent_did )
        => {frame[t].did, frame[u].did} \subseteq children_of(frame[t].parent_did)

(***************************************************************************)
(* generate_did_key (src/did_generator.py): a did:key identifier,          *)
(* optionally signed by a parent.  The function keeps no state; key_dids   *)
(* records what its calls returned.                                        *)
(***************************************************************************)

\* Number of identifiers (of either method) issued in a run of SpecIdentity.
MaxIssued == 2

\* The PEM bytes of the encrypted private key of key pair k:
\* bytes.fromhex(result["private_key"]).
private_bytes_pem(k) == <<"pem", k>>

\* Bytes that load_pem_private_key rejects.
BadPem == <<"notpem", 0>>

load_pem_private_key_raises(private_key) == private_key[1] # "pem"

\* parent_did.split(':')[-1]
last_segment(did) == did[2]

\* The proof of generate_did_key with its verificationMethod naming the new
\* identifier instead of the parent.
did_key_proof_naming_child(parent_did, parent_private_key, did_key) ==
    [type |-> "Ed25519Signature2018",
     created |-> "2025-05-11T13:45:09Z",
     verificationMethod |-> <<did_key, last_segment(did_key)>>,
     proofPurpose |-> "assertionMethod",
     jws |-> b58encode(sign(parent_private_key, <<parent_did, did_key>>))]

\* The proof generate_did_key adds to the document (lines 103-113).
did_key_proof(parent_did, parent_private_key, did_key) ==
    [type |-> "Ed25519Signature2018",
     created |-> "2025-05-11T13:45:09Z",
     verificationMethod |-> <<parent_did, last_segment(parent_did)>>,
     proofPurpose |-> "assertionMethod",
     jws |-> b58encode(sign(parent_private_key, <<parent_did, did_key>>))]

\* The document generate_did_key builds before the proof is added.
did_key_document(did_key, encoded_public_key) ==
    [id |-> did_key,
     verificationMethod |->
        << [id |-> <<did_key, encoded_public_key>>,
            type |-> "Ed25519VerificationKey2018",
            controller |-> did_key,
            publicKeyMultibase |-> encoded_public_key] >>,
     authentication |-> << <<did_key, encoded_public_key>> >>,
     assertionMethod |-> << <<did_key, encoded_public_key>> >>]

\* The PEM keys a caller holds: those returned by earlier calls.
returned_pem_keys == {key_dids[i].private_key : i \in 1..Len(key_dids)}

\* The identifiers a caller names as parent of a did:key: those returned by
\* earlier calls (lines 174-177).
KeyParentDidArgs == {None} \cup {key_dids[i].did : i \in 1..Len(key_dids)}

KeyParentKeyArgs == {None, BadPem} \cup returned_pem_keys

generate_did_key(k, parent_did, parent_private_key) ==
    LET public_key_bytes == public_bytes(k)
        encoded_public_key == encode_multibase(public_key_bytes)
        did_key == <<"did:key", encoded_public_key>>
        document == did_key_document(did_key, encoded_public_key)
    IN
    /\ UNCHANGED <<multibase, child_dids, registry_vars, object_vars, pdf_vars>>
    /\ IF ~has_parent(parent_did, parent_private_key)
       THEN key_dids' = Append(key_dids,
                [did |-> did_key, key |-> k, parent_did |-> parent_did,
                 document |-> document,
                 private_key |-> private_bytes_pem(k)])
       ELSE IF load_pem_private_key_raises(parent_private_key)
       THEN key_dids' = key_dids
       ELSE key_dids' = Append(key_dids,
                [did |-> did_key, key |-> k, parent_did |-> parent_did,
                 document |-> document @@
                    [proof |-> did_key_proof(parent_did, parent_private_key,
                                             did_key)],
                 private_key |-> private_bytes_pem(k)])

GenerateDidKey ==
    \E k \in fresh_keys, parent_did \in KeyParentDidArgs,
       parent_private_key \in KeyParentKeyArgs :
        generate_did_key(k, parent_did, parent_private_key)

NextIdentity ==
    \/ (Len(created) + Len(key_dids) < MaxIssued /\ CreateDid)
    \/ (Len(created) + Len(key_dids) < MaxIssued /\ GenerateDidKey)

SpecIdentity == Init /\ [][NextIdentity]_vars

\* The create_did calls that returned a child with a proof.
children_by_create_did ==
    {i \in 1..Len(created) : "proof" \in DOMAIN created[i].document}

\* The generate_did_key calls that returned a child with a proof.
children_by_generate_did_key ==
    {i \in 1..Len(key_dids) : "proof" \in DOMAIN key_dids[i].document}

C11_WitnessDidKey ==
    \E i \in children_by_generate_did_key :
        \E j \in 1..(i - 1) : key_dids[j].did = key_dids[i].parent_did

(***************************************************************************)
(* attempt_parent_calculation and the non-invertibility of the parent      *)
(* link, under Spec.                                                       *)
(***************************************************************************)

\* attempt_parent_calculation: what it returns, or the exception that
\* escapes it (line 181 on an entry without a document).  The length of the
\* child's public key, which the result also carries, is left out.
attempt_parent_calculation(child_did) ==
    IF child_did \notin DOMAIN did_registry
    THEN [outcome |-> "returned", error |-> "Child DID not found"]
    ELSE IF "document" \notin DOMAIN did_registry[child_did]
    THEN [outcome |-> "KeyError"]
    ELSE IF "proof" \notin DOMAIN did_registry[child_did].document
    THEN [outcome |-> "returned", error |-> "No ownership proof found"]
    ELSE [outcome |-> "returned",
          child_did |-> child_did,
          analysis |->
            [proof_analysis |->
                [contains_parent_did |-> FALSE,
                 proof_fields |-> DOMAIN did_registry[child_did].document.proof],
             signature_analysis |-> [can_derive_parent |-> FALSE],
             key_analysis |-> [can_derive_parent |-> FALSE]],
          conclusion |->
            "Parent DID cannot be calculated from child DID or its proof"]

\* C12: for every child that create_did returned under a parent, the
\* registry entry of the child (document, proof with its verificationMethod,
\* public key, signature and signed message, children list) holds the parent
\* DID nowhere, and attempt_parent_calculation(child) returns an analysis in
\* which contains_parent_did and both can_derive_parent are False.
C12_NonInvertible ==
    \A i \in children_by_create_did :
        /\ issued(created[i].did)
        /\ created[i].parent_did
                \notin strings_of_entry(did_registry[created[i].did])
        /\ LET result == attempt_parent_calculation(created[i].did)
           IN  /\ result.outcome = "returned"
               /\ "analysis" \in DOMAIN result
               /\ ~result.analysis.proof_analysis.contains_parent_did
               /\ ~result.analysis.signature_analysis.can_derive_parent
               /\ ~result.analysis.key_analysis.can_derive_parent

(***************************************************************************)
(* DataObject (src/data_object.py): create, verify_owner, verify_content,  *)
(* is_valid, to_dict, from_dict and decrypt_content.                       *)
(*                                                                         *)
(* A text is a sequence of character codes where its order matters (the    *)
(* version texts), a pair <<tag, payload>> otherwise.  An ISO date text is *)
(* <<"naive", t>> (no UTC offset), <<"aware", t>> (with an offset) or      *)
(* <<"malformed", 0>>; t counts seconds.  A datetime is a record of its    *)
(* awareness and its second.                                               *)
(***************************************************************************)

\* Largest number of validity conditions given to create.
MaxConditions == 2
\* The second T that the expiration conditions are dated.
ExpiryDate == 1
\* The second at which the clock of datetime.utcnow() stops.
MaxTime == 2

\* hashlib.sha256(text).hexdigest(), injective.
sha256(text) == <<"sha256", text>>

\* json.dumps(content, sort_keys=True).encode('utf-8')
json_dumps(content) == <<"json", content>>

\* json.loads of a text that json.dumps wrote.
json_loads(text) == text[2]

b64encode(bytes) == <<"b64", bytes>>

b64decode(text) == text[2]

\* The empty dict {}.
EmptyDict == [k \in {} |-> None]

\* The texts "9.0", "10.0" and "0" as character codes.
Version_9_0 == <<57, 46, 48>>

Version_10_0 == <<49, 48, 46, 48>>

DefaultVersion == <<48>>

\* a < b on texts, shorter texts first (as a comparison of numbers of equal
\* width would have it).
str_less_by_length(a, b) ==
    \/ Len(a) < Len(b)
    \/ /\ Len(a) = Len(b)
       /\ \E i \in 1..Len(b) :
            /\ \A j \in 1..(i - 1) : a[j] = b[j]
            /\ a[i] < b[i]

\* a < b on Python str: by the first differing character, a proper prefix
\* being smaller.
str_less(a, b) ==
    \E i \in 1..Len(b) :
        /\ i - 1 <= Len(a)
        /\ \A j \in 1..(i - 1) : a[j] = b[j]
        /\ (i > Len(a) \/ a[i] < b[i])

\* The owner DIDs of the example in __main__ (lines 272 and 319).
OwnerDidArgs == {<<"did:example:", 123456789>>, <<"did:example:", 123>>}

\* The content mappings given to create: a name and, optionally, a version.
ContentArgs ==
    {[name |-> "Example Data"],
     [name |-> "Example Data", version |-> Version_10_0]}

\* RSA key pairs: the PEM texts of key pair r.
RsaKeys == {1, 2}

rsa_public_pem(r) == <<"rsa-public", r>>

rsa_private_pem(r) == <<"rsa-private", r>>

\* os.urandom(32) and os.urandom(16)
AesKeys == {<<"aes", 1>>, <<"aes", 2>>}

Ivs == {<<"iv", 1>>}

\* The condition dicts a caller passes to create.
ConditionArgs ==
    { [type |-> "expiration", parameters |-> [date |-> <<"naive", ExpiryDate>>],
       description |-> ""],
      [type |-> "expiration", parameters |-> [date |-> <<"aware", ExpiryDate>>],
       description |-> ""],
      [type |-> "expiration", parameters |-> [date |-> <<"malformed", 0>>],
       description |-> ""],
      [type |-> "expiration"],
      [type |-> "version", parameters |-> [min_version |-> Version_9_0],
       description |-> ""],
      [type |-> "version"],
      [type |-> "custom"] }

RECURSIVE SeqsUpTo(_, _)
\* The lists of at most n elements of S.
SeqsUpTo(S, n) ==
    IF n = 0 THEN {<<>>}
    ELSE LET shorter == SeqsUpTo(S, n - 1)
         IN  shorter \cup {Append(q, e) : q \in shorter, e \in S}

\* The lists of condition dicts a caller passes to create.
ConditionListArgs == SeqsUpTo(ConditionArgs, MaxConditions)

\* cond.get(key, default)
dict_get(dict, key, default) ==
    IF key \in DOMAIN dict THEN dict[key] ELSE default

\* ValidityCondition(...) of lines 113-117.
condition_of_arg(cond) ==
    [condition_type |-> cond.type,
     parameters |-> dict_get(cond, "parameters", EmptyDict),
     description |-> dict_get(cond, "description", "")]

\* The hybrid-encryption envelope of lines 81-105.
encrypt_content(content_json, owner_public_key, aes_key, iv) ==
    json_dumps(
        [encrypted_content |->
            b64encode(<<"aes-cbc", aes_key, iv, <<"pkcs7", content_json>>>>),
         encrypted_key |->
            b64encode(<<"oaep", owner_public_key[2], aes_key>>),
         iv |-> b64encode(iv)])

\* DataObject.create: the object it returns.
create(owner_did, data_type, content, owner_public_key, validity_conditions, now, aes_key, iv) ==
    [owner_did_hash |-> sha256(owner_did),
     data_type |-> data_type,
     content |-> content,
     encrypted_content |->
        encrypt_content(json_dumps(content), owner_public_key, aes_key, iv),
     created_at |-> [aware |-> FALSE, t |-> now],
     content_hash |-> sha256(json_dumps(content)),
     state |-> "active",
     validity_conditions |->
        [i \in 1..Len(validity_conditions)
            |-> condition_of_arg(validity_conditions[i])]]

\* verify_owner answering True for every DID.
verify_owner_any(obj, owner_did) ==
    sha256(owner_did)[1] = obj.owner_did_hash[1]

verify_owner(obj, owner_did) ==
    sha256(owner_did) = obj.owner_did_hash

verify_content(obj) ==
    sha256(json_dumps(obj.content)) = obj.content_hash

\* datetime.fromisoformat raises ValueError on such a text.
fromisoformat_raises(text) == text[1] \notin {"naive", "aware"}

\* datetime.fromisoformat(text)
fromisoformat(text) == [aware |-> text[1] = "aware", t |-> text[2]]

\* datetime.isoformat() of a datetime.
isoformat(datetime) ==
    <<IF datetime.aware THEN "aware" ELSE "naive", datetime.t>>

\* One pass of the loop body of is_valid, with the expiration measured from
\* the creation of the object.
check_condition_from_creation(condition, obj, now) ==
    IF condition.condition_type = "expiration"
    THEN IF "date" \notin DOMAIN condition.parameters THEN "KeyError"
         ELSE IF fromisoformat_raises(condition.parameters.date)
         THEN "ValueError"
         ELSE IF fromisoformat(condition.parameters.date).aware
         THEN "TypeError"
         ELSE IF now - obj.created_at.t
                    > fromisoformat(condition.parameters.date).t
         THEN "False"
         ELSE "next"
    ELSE IF condition.condition_type = "version"
    THEN IF /\ "min_version" \in DOMAIN condition.parameters
            /\ str_less(dict_get(obj.content, "version", DefaultVersion),
                        condition.parameters.min_version)
         THEN "False"
         ELSE "next"
    ELSE "next"

\* One pass of the loop body of is_valid (lines 195-202): "False" when it
\* returns False, the exception when it raises, "next" when the loop goes
\* on.  now is the naive datetime.utcnow().
check_condition(condition, obj, now) ==
    IF condition.condition_type = "expiration"
    THEN IF "date" \notin DOMAIN condition.parameters THEN "KeyError"
         ELSE IF fromisoformat_raises(condition.parameters.date)
         THEN "ValueError"
         ELSE IF fromisoformat(condition.parameters.date).aware
         THEN "TypeError"
         ELSE IF now > fromisoformat(condition.parameters.date).t
         THEN "False"
         ELSE "next"
    ELSE IF condition.condition_type = "version"
    THEN IF /\ "min_version" \in DOMAIN condition.parameters
            /\ str_less(dict_get(obj.content, "version", DefaultVersion),
                        condition.parameters.min_version)
         THEN "False"
         ELSE "next"
    ELSE "next"

RECURSIVE check_conditions(_, _, _)
\* The loop of is_valid over the conditions from the i-th on.
check_conditions(i, obj, now) ==
    IF i > Len(obj.validity_conditions) THEN "True"
    ELSE LET outcome == check_condition(obj.validity_conditions[i], obj, now)
         IN  IF outcome = "next"
             THEN check_conditions(i + 1, obj, now)
             ELSE outcome

\* is_valid: "True", "False", or the exception that escapes it.
is_valid(obj, now) ==
    IF obj.state # "active" THEN "False"
    ELSE check_conditions(1, obj, now)

to_dict(obj) ==
    [owner_did_hash |-> obj.owner_did_hash,
     data_type |-> obj.data_type,
     content |-> obj.content,
     encrypted_content |-> obj.encrypted_content,
     created_at |-> isoformat(obj.created_at),
     content_hash |-> obj.content_hash,
     state |-> obj.state,
     validity_conditions |->
        [i \in 1..Len(obj.validity_conditions) |->
            [type |-> obj.validity_conditions[i].condition_type,
             parameters |-> obj.validity_conditions[i].parameters,
             description |-> obj.validity_conditions[i].description]]]

\* The keys from_dict reads, in the order it reads them: the conditions
\* first (lines 243-250), then the arguments of cls(...) (lines 252-261).
from_dict_keys ==
    <<"validity_conditions", "owner_did_hash", "data_type", "content",
      "encrypted_content", "created_at", "content_hash", "state">>

\* The exception from_dict raises: KeyError for a key that is missing,
\* ValueError for a created_at that is no ISO date; "none" otherwise.
from_dict_raises(data) ==
    IF \E i \in 1..Len(from_dict_keys) : from_dict_keys[i] \notin DOMAIN data
    THEN "KeyError"
    ELSE IF fromisoformat_raises(data.created_at)
    THEN "ValueError"
    ELSE "none"

\* from_dict of a dict that has every key (as to_dict writes it).
from_dict(data) ==
    [owner_did_hash |-> data.owner_did_hash,
     data_type |-> data.data_type,
     content |-> data.content,
     encrypted_content |-> data.encrypted_content,
     created_at |-> fromisoformat(data.created_at),
     content_hash |-> data.content_hash,
     state |-> data.state,
     validity_conditions |->
        [i \in 1..Len(data.validity_conditions) |->
            [condition_type |-> data.validity_conditions[i].type,
             parameters |-> data.validity_conditions[i].parameters,
             description |-> data.validity_conditions[i].description]]]

\* decrypt_content unwrapping the AES key with any private key.
decrypt_content_with_any_key(obj, owner_private_key) ==
    LET encrypted_data == json_loads(obj.encrypted_content)
        encrypted_content == b64decode(encrypted_data.encrypted_content)
    IN  [outcome |-> "returned",
         content |-> json_loads(encrypted_content[4][2])]

\* decrypt_content: the content, or the exception PKCS1_OAEP raises for a
\* private key that is not the owner's.
decrypt_content(obj, owner_private_key) ==
    LET encrypted_data == json_loads(obj.encrypted_content)
        encrypted_aes_key == b64decode(encrypted_data.encrypted_key)
        encrypted_content == b64decode(encrypted_data.encrypted_content)
        iv == b64decode(encrypted_data.iv)
    IN  IF encrypted_aes_key[2] # owner_private_key[2]
        THEN [outcome |-> "ValueError"]
        ELSE LET aes_key == encrypted_aes_key[3]
             IN  IF aes_key # encrypted_content[2] \/ iv # encrypted_content[3]
                 THEN [outcome |-> "ValueError"]
                 ELSE [outcome |-> "returned",
                       content |-> json_loads(encrypted_content[4][2])]

\* The states a serialised object can be given (line 36).
States == {"active", "invalid"}

\* The values an in-place assignment can give to a key of the content.
ContentItems == {<<"name", "Modified">>, <<"version", Version_9_0>>}

Create ==
    /\ data_obj = NoObject
    /\ \E owner_did \in OwnerDidArgs, content \in ContentArgs,
          validity_conditions \in ConditionListArgs,
          aes_key \in AesKeys, iv \in Ivs :
        /\ data_obj' = create(owner_did, "example_data", content,
                              rsa_public_pem(1), validity_conditions,
                              utcnow, aes_key, iv)
        /\ data_owner' = owner_did
        /\ data_ret' = NoCall
        /\ UNCHANGED <<multibase, child_dids, registry_vars, key_dids, utcnow, pdf_vars>>

\* data_obj.content = ...: the frozen dataclass raises FrozenInstanceError.
AssignContent ==
    /\ data_obj # NoObject
    /\ data_obj' = data_obj
    /\ data_ret' = NoCall
    /\ UNCHANGED <<multibase, child_dids, registry_vars, key_dids, data_owner, utcnow, pdf_vars>>

\* data_obj.content[key] = value (line 336), or the same assignment through
\* the mapping the caller passed to create: both are the one dict object
\* that line 124 stored.
SetContentItem ==
    \E item \in ContentItems :
        /\ data_obj # NoObject
        /\ data_obj' =
            [data_obj EXCEPT !.content = (item[1] :> item[2]) @@ @]
        /\ data_ret' = NoCall
        /\ UNCHANGED <<multibase, child_dids, registry_vars, key_dids, data_owner, utcnow, pdf_vars>>

\* The serialised object is given a state and loaded again.
Reload ==
    \E state \in States :
        /\ data_obj # NoObject
        /\ data_obj' = from_dict([to_dict(data_obj) EXCEPT !.state = state])
        /\ data_ret' = NoCall
        /\ UNCHANGED <<multibase, child_dids, registry_vars, key_dids, data_owner, utcnow, pdf_vars>>

\* A second passes.
Tick ==
    /\ utcnow < MaxTime
    /\ utcnow' = utcnow + 1
    /\ data_ret' = NoCall
    /\ UNCHANGED <<multibase, child_dids, registry_vars, key_dids, data_obj, data_owner, pdf_vars>>

NextData ==
    \/ Create
    \/ AssignContent
    \/ SetContentItem
    \/ Reload
    \/ Tick

SpecData == Init /\ [][NextData]_vars

(***************************************************************************)
(* Properties of the DataObject under SpecData.                            *)
(***************************************************************************)

\* C13: for a DataObject created with owner_did = D, verify_owner(s) is
\* true exactly for s = D.
C13_OwnerBinding ==
    data_obj # NoObject
    => \A s \in OwnerDidArgs :
            verify_owner(data_obj, s) <=> (s = data_owner)

\* The object has been serialised and loaded again, and verify_owner accepts
\* its owner and rejects the other DID.
C13_Witness ==
    /\ data_obj # NoObject
    /\ data_obj.state = "invalid"
    /\ verify_owner(data_obj, data_owner)
    /\ \E s \in OwnerDidArgs : ~verify_owner(data_obj, s)

\* C14: the content of a created DataObject never changes, so
\* verify_content() is true in every state after create.
C14_ContentNeverChanges ==
    data_obj # NoObject => verify_content(data_obj)

\* Every content mapping with a name and, optionally, a version.
AllContents ==
    {[name |-> n] : n \in {"Example Data", "Modified"}}
    \cup {[name |-> n, version |-> v]
            : n \in {"Example Data", "Modified"},
              v \in {Version_9_0, Version_10_0}}

\* The DataObjects that have the state and the validity_conditions of obj,
\* whatever their other fields.
object_agreeing_with(obj, c, o, t) ==
    [obj EXCEPT !.content = c,
                !.content_hash = sha256(json_dumps(c)),
                !.owner_did_hash = sha256(o),
                !.created_at = [aware |-> FALSE, t |-> t]]

\* All of them.
objects_agreeing_with(obj) ==
    {object_agreeing_with(obj, c, o, t)
        : c \in AllContents, o \in OwnerDidArgs, t \in 0..MaxTime}

\* C15 as claimed: two DataObjects with the same state and the same
\* validity_conditions get the same result from is_valid at the same time,
\* whatever their other fields (content included).
C15_ValidityIgnoresContent ==
    data_obj # NoObject
    => \A other \in objects_agreeing_with(data_obj) :
            is_valid(other, utcnow) = is_valid(data_obj, utcnow)

\* C15 as the code has it: two DataObjects with the same state, the same
\* validity_conditions and the same version entry of the content ("0" when
\* there is none) get the same result from is_valid at the same time,
\* whatever their other fields.
C15_ValidityOfStateConditionsVersionTime ==
    data_obj # NoObject
    => LET result == is_valid(data_obj, utcnow)
           version == dict_get(data_obj.content, "version", DefaultVersion)
       IN  \A c \in AllContents :
                dict_get(c, "version", DefaultVersion) = version
                => \A o \in OwnerDidArgs, t \in 0..MaxTime :
                    is_valid(object_agreeing_with(data_obj, c, o, t), utcnow)
                        = result

\* An active object past a naive expiration date: is_valid says False, and
\* an object created at another second with another content agrees.
C15_Witness ==
    /\ data_obj # NoObject
    /\ data_obj.state = "active"
    /\ Len(data_obj.validity_conditions) > 0
    /\ data_obj.validity_conditions[1].condition_type = "expiration"
    /\ is_valid(data_obj, utcnow) = "False"
    /\ data_obj.created_at.t < utcnow

RECURSIVE lexicographic_less(_, _)
\* The lexicographic order of texts, character by character.
lexicographic_less(a, b) ==
    IF Len(b) = 0 THEN FALSE
    ELSE IF Len(a) = 0 THEN TRUE
    ELSE IF Head(a) # Head(b) THEN Head(a) < Head(b)
    ELSE lexicographic_less(Tail(a), Tail(b))

\* A condition is violated: an expiration whose date is before now, or a
\* version whose min_version is above the content's version.
violated(condition, obj, now) ==
    \/ /\ condition.condition_type = "expiration"
       /\ "date" \in DOMAIN condition.parameters
       /\ condition.parameters.date[1] \in {"naive", "aware"}
       /\ now > condition.parameters.date[2]
    \/ /\ condition.condition_type = "version"
       /\ "min_version" \in DOMAIN condition.parameters
       /\ lexicographic_less(
                dict_get(obj.content, "version", DefaultVersion),
                condition.parameters.min_version)

\* C16: is_valid returns False when the state is not active; otherwise it
\* returns True when no condition is violated and False when one is.
C16_ValidityRule ==
    data_obj # NoObject
    => is_valid(data_obj, utcnow) =
        IF data_obj.state # "active" THEN "False"
        ELSE IF \E i \in 1..Len(data_obj.validity_conditions) :
                    violated(data_obj.validity_conditions[i], data_obj, utcnow)
        THEN "False"
        ELSE "True"

\* C17: for an active object whose only condition is an expiration dated T,
\* is_valid returns True at every now <= T and False at every now > T.
C17_ExpirationBoundary ==
    ( /\ data_obj # NoObject
      /\ data_obj.state = "active"
      /\ Len(data_obj.validity_conditions) = 1
      /\ data_obj.validity_conditions[1].condition_type = "expiration"
      /\ "date" \in DOMAIN data_obj.validity_conditions[1].parameters
      /\ data_obj.validity_conditions[1].parameters.date[1]
            \in {"naive", "aware"} )
    => is_valid(data_obj, utcnow) =
        IF utcnow <= data_obj.validity_conditions[1].parameters.date[2]
        THEN "True"
        ELSE "False"

\* C18: for an active object whose conditions are all of type version,
\* is_valid returns False exactly when some condition has a min_version
\* that the content's version ("0" when there is none) is below in the
\* lexicographic order of texts; a version condition without min_version
\* is never violated.
C18_VersionRule ==
    ( /\ data_obj # NoObject
      /\ data_obj.state = "active"
      /\ \A i \in 1..Len(data_obj.validity_conditions) :
            data_obj.validity_conditions[i].condition_type = "version" )
    => is_valid(data_obj, utcnow) =
        IF \E i \in 1..Len(data_obj.validity_conditions) :
            /\ "min_version" \in DOMAIN data_obj.validity_conditions[i].parameters
            /\ lexicographic_less(
                    dict_get(data_obj.content, "version", DefaultVersion),
                    data_obj.validity_conditions[i].parameters.min_version)
        THEN "False"
        ELSE "True"

\* The content has version "10.0", the conditions are a version condition
\* without min_version and one with min_version "9.0", and is_valid
\* returns False.
C18_Witness ==
    /\ data_obj # NoObject
    /\ data_obj.state = "active"
    /\ Len(data_obj.validity_conditions) = 2
    /\ data_obj.validity_conditions[1].condition_type = "version"
    /\ "min_version" \notin DOMAIN data_obj.validity_conditions[1].parameters
    /\ data_obj.validity_conditions[2].condition_type = "version"
    /\ "min_version" \in DOMAIN data_obj.validity_conditions[2].parameters
    /\ data_obj.validity_conditions[2].parameters.min_version = Version_9_0
    /\ "version" \in DOMAIN data_obj.content
    /\ data_obj.content.version = Version_10_0
    /\ is_valid(data_obj, utcnow) = "False"

\* C19: is_valid and verify_owner return a boolean, whatever the object
\* that create or from_dict produced.
C19_PredicatesNeverRaise ==
    data_obj # NoObject
    => /\ is_valid(data_obj, utcnow) \in {"True", "False"}
       /\ \A s \in OwnerDidArgs : verify_owner(data_obj, s) \in BOOLEAN

(***************************************************************************)
(* The PDF container (src/pdf_data_object.py): create_pdf_data_object and  *)
(* verify_pdf_data_object.                                                 *)
(*                                                                         *)
(* A file is its bytes, identified by a pair <<tag, number>>, and the      *)
(* "/DataObject" metadata read from it.  The hash of a file is the hash of *)
(* its bytes.  A file at pdf_path is any file: one that                    *)
(* create_pdf_data_object wrote, or one put there by other means, whose    *)
(* recorded pdf_hash may or may not be the hash of its bytes.              *)
(***************************************************************************)

\* The bytes of the PDF files given to create_pdf_data_object.
SourceBytes == {<<"pdf-source", 1>>, <<"pdf-source", 2>>}

\* The bytes PdfWriter writes for a source file and its metadata.
written_bytes(pdf_content) == <<"pdf-written", pdf_content[2]>>

\* The file has no "/DataObject" metadata.
NoMetadata == [absent |-> TRUE]

\* datetime.now(UTC).replace(year=year + 1).isoformat(): a year is longer
\* than any run.
one_year_after(now) == <<"aware", now + MaxTime + 1>>

\* The file create_pdf_data_object writes to output_path.
create_pdf_data_object(pdf_content, owner_did_document, owner_public_key, now, aes_key, iv) ==
    LET owner_did == owner_did_document.id
        pdf_hash == sha256(pdf_content)
        content == [pdf_hash |-> pdf_hash, name |-> "pdf_document"]
        validity_conditions ==
            << [type |-> "expiration",
                parameters |-> [date |-> one_year_after(now)],
                description |-> "Document expires in one year"] >>
        obj == create(owner_did, "pdf_document", content, owner_public_key,
                      validity_conditions, now, aes_key, iv)
    IN  [exists |-> TRUE,
         bytes |-> written_bytes(pdf_content),
         metadata |-> [data_object |-> to_dict(obj),
                       pdf_hash |-> pdf_hash,
                       did_document |-> owner_did_document]]

\* The condition lists of the objects in files put at pdf_path by other
\* means.
PdfConditionArgs ==
    { <<>>,
      << [type |-> "expiration",
          parameters |-> [date |-> <<"naive", ExpiryDate>>],
          description |-> ""] >>,
      << [type |-> "expiration",
          parameters |-> [date |-> <<"aware", ExpiryDate>>],
          description |-> ""] >> }

\* The files put at pdf_path by other means.
PdfFiles ==
    {[exists |-> TRUE, bytes |-> b, metadata |-> NoMetadata]
        : b \in SourceBytes}
    \cup
    {[exists |-> TRUE,
      bytes |-> b,
      metadata |->
        [data_object |->
            [to_dict(create(owner_did, "pdf_document",
                            [name |-> "pdf_document"], rsa_public_pem(r),
                            validity_conditions, 0, <<"aes", 1>>, <<"iv", 1>>))
                EXCEPT !.state = state],
         pdf_hash |-> sha256(recorded),
         did_document |-> [id |-> document_id]]]
        : b \in SourceBytes, recorded \in SourceBytes,
          owner_did \in OwnerDidArgs, document_id \in OwnerDidArgs,
          r \in RsaKeys, validity_conditions \in PdfConditionArgs,
          state \in States}

\* A dict without one of its keys.
without_key(dict, key) == [k \in DOMAIN dict \ {key} |-> dict[k]]

\* The dict of a data object as to_dict writes it.
WellFormedDict ==
    to_dict(create(<<"did:example:", 123>>, "pdf_document",
                   [name |-> "pdf_document"], rsa_public_pem(1),
                   <<>>, 0, <<"aes", 1>>, <<"iv", 1>>))

\* The "/DataObject" metadata that verify_pdf_data_object cannot read:
\* text that is not JSON, JSON without "data_object" or without "pdf_hash",
\* a data object without its state or with a created_at that is no date.
MalformedMetadata ==
    {[malformed |-> TRUE]}
    \cup
    UNION {{[pdf_hash |-> sha256(recorded)],
            [data_object |-> WellFormedDict],
            [data_object |-> without_key(WellFormedDict, "state"),
             pdf_hash |-> sha256(recorded)],
            [data_object |->
                [WellFormedDict EXCEPT !.created_at = <<"malformed", 0>>],
             pdf_hash |-> sha256(recorded)]}
                : recorded \in SourceBytes \cup {written_bytes(b) : b \in SourceBytes}}

\* The files whose metadata cannot be read.
MalformedPdfFiles ==
    {[exists |-> TRUE, bytes |-> b, metadata |-> metadata]
        : b \in {written_bytes(c) : c \in SourceBytes},
          metadata \in MalformedMetadata}

\* The exception raised while the metadata is parsed (lines 158-163):
\* by json.loads, by the lookup of "data_object" or by from_dict; "none"
\* when a data object was built.
parse_raises(metadata) ==
    IF "malformed" \in DOMAIN metadata THEN "JSONDecodeError"
    ELSE IF "data_object" \notin DOMAIN metadata THEN "KeyError"
    ELSE from_dict_raises(metadata.data_object)

\* verify_pdf_data_object with the validity of the object checked before
\* the hash of the file.
verify_pdf_data_object_validity_first(file, owner_private_key, now) ==
    IF ~file.exists
    THEN [valid |-> FALSE, error |-> "FileNotFoundError", steps |-> <<>>]
    ELSE IF "absent" \in DOMAIN file.metadata
    THEN [valid |-> FALSE, error |-> "No data object metadata found",
          steps |-> <<"metadata">>]
    ELSE IF parse_raises(file.metadata) # "none"
    THEN [valid |-> FALSE, error |-> parse_raises(file.metadata),
          steps |-> <<"metadata">>]
    ELSE IF "pdf_hash" \notin DOMAIN file.metadata
    THEN [valid |-> FALSE, error |-> "KeyError", steps |-> <<"metadata">>]
    ELSE LET obj == from_dict(file.metadata.data_object)
         IN
         IF is_valid(obj, now) # "True"
         THEN [valid |-> FALSE,
               error |-> IF is_valid(obj, now) = "False"
                         THEN "Data object is not valid"
                         ELSE is_valid(obj, now),
               steps |-> <<"metadata", "is_valid">>]
         ELSE IF sha256(file.bytes) # file.metadata.pdf_hash
         THEN [valid |-> FALSE, error |-> "PDF content has been modified",
               steps |-> <<"metadata", "is_valid", "pdf_hash">>]
         ELSE IF decrypt_content(obj, owner_private_key).outcome # "returned"
         THEN [valid |-> FALSE,
               error |-> decrypt_content(obj, owner_private_key).outcome,
               steps |-> <<"metadata", "is_valid", "pdf_hash",
                           "decrypt_content">>]
         ELSE [valid |-> TRUE,
               data_object |-> to_dict(obj),
               decrypted_content |->
                    decrypt_content(obj, owner_private_key).content,
               steps |-> <<"metadata", "is_valid", "pdf_hash",
                           "decrypt_content">>]

\* The try block of verify_pdf_data_object (lines 144-196): the dict it
\* returns, or the exception raised in it, and the checks it went through
\* (steps).
verify_pdf_try(file, owner_private_key, now) ==
    IF ~file.exists
    THEN [raised |-> "FileNotFoundError", steps |-> <<>>]
    ELSE IF "absent" \in DOMAIN file.metadata
    THEN [valid |-> FALSE, error |-> "No data object metadata found",
          steps |-> <<"metadata">>]
    ELSE IF parse_raises(file.metadata) # "none"
    THEN [raised |-> parse_raises(file.metadata), steps |-> <<"metadata">>]
    ELSE IF "pdf_hash" \notin DOMAIN file.metadata
    THEN [raised |-> "KeyError", steps |-> <<"metadata">>]
    ELSE LET obj == from_dict(file.metadata.data_object)
             current_hash == sha256(file.bytes)
         IN
         IF current_hash # file.metadata.pdf_hash
         THEN [valid |-> FALSE, error |-> "PDF content has been modified",
               steps |-> <<"metadata", "pdf_hash">>]
         ELSE IF is_valid(obj, now) = "False"
         THEN [valid |-> FALSE, error |-> "Data object is not valid",
               steps |-> <<"metadata", "pdf_hash", "is_valid">>]
         ELSE IF is_valid(obj, now) # "True"
         THEN [raised |-> is_valid(obj, now),
               steps |-> <<"metadata", "pdf_hash", "is_valid">>]
         ELSE IF decrypt_content(obj, owner_private_key).outcome # "returned"
         THEN [raised |-> decrypt_content(obj, owner_private_key).outcome,
               steps |-> <<"metadata", "pdf_hash", "is_valid",
                           "decrypt_content">>]
         ELSE [valid |-> TRUE,
               data_object |-> to_dict(obj),
               decrypted_content |->
                    decrypt_content(obj, owner_private_key).content,
               steps |-> <<"metadata", "pdf_hash", "is_valid",
                           "decrypt_content">>]

\* verify_pdf_data_object without its except clause: an exception raised in
\* the try block escapes.
verify_pdf_data_object_without_except(file, owner_private_key, now) ==
    verify_pdf_try(file, owner_private_key, now)

\* verify_pdf_data_object: the dict it returns.  An exception raised in the
\* try block is returned as the error (lines 198-203).
verify_pdf_data_object(file, owner_private_key, now) ==
    LET attempt == verify_pdf_try(file, owner_private_key, now)
    IN  IF "raised" \in DOMAIN attempt
        THEN [valid |-> FALSE, error |-> attempt.raised,
              steps |-> attempt.steps]
        ELSE attempt

CreatePdfDataObject ==
    \E pdf_content \in SourceBytes, owner_did \in OwnerDidArgs,
       r \in RsaKeys, aes_key \in AesKeys, iv \in Ivs :
        /\ pdf_file' = create_pdf_data_object(pdf_content, [id |-> owner_did],
                            rsa_public_pem(r), utcnow, aes_key, iv)
        /\ pdf_result' = NoResult
        /\ UNCHANGED <<multibase, child_dids, registry_vars, key_dids, object_vars>>

\* Another file is put at pdf_path.
ReplacePdf ==
    \E file \in PdfFiles \cup MalformedPdfFiles :
        /\ pdf_file' = file
        /\ pdf_result' = NoResult
        /\ UNCHANGED <<multibase, child_dids, registry_vars, key_dids, object_vars>>

VerifyPdfDataObject ==
    \E r \in RsaKeys :
        /\ pdf_result' =
            verify_pdf_data_object(pdf_file, rsa_private_pem(r), utcnow)
        /\ UNCHANGED <<multibase, child_dids, registry_vars, key_dids, object_vars, pdf_file>>

NextPdf ==
    \/ CreatePdfDataObject
    \/ ReplacePdf
    \/ VerifyPdfDataObject
    \/ Tick

SpecPdf == Init /\ [][NextPdf]_vars

\* The file at pdf_path passes the hash check and its data object does not
\* belong to the DID of the DID document recorded next to it.
owner_mismatch(file) ==
    /\ file.exists
    /\ "absent" \notin DOMAIN file.metadata
    /\ parse_raises(file.metadata) = "none"
    /\ "pdf_hash" \in DOMAIN file.metadata
    /\ sha256(file.bytes) = file.metadata.pdf_hash
    /\ ~verify_owner(from_dict(file.metadata.data_object),
                     file.metadata.did_document.id)

\* C20: verifying a file whose data object does not belong to the expected
\* owner fails at an owner check that comes after the hash check and before
\* is_valid and the decryption.
C20_OwnerChecked ==
    (pdf_result # NoResult /\ owner_mismatch(pdf_file))
    => /\ ~pdf_result.valid
       /\ pdf_result.steps = <<"metadata", "pdf_hash", "verify_owner">>

(***************************************************************************)
(* The order of the checks of verify_pdf_data_object.                      *)
(***************************************************************************)

\* The metadata of the file records a hash of the container.
records_hash(file) ==
    /\ file.exists
    /\ "absent" \notin DOMAIN file.metadata
    /\ "pdf_hash" \in DOMAIN file.metadata

\* A data object is built from the metadata of the file.
reads_data_object(file) ==
    /\ file.exists
    /\ "absent" \notin DOMAIN file.metadata
    /\ parse_raises(file.metadata) = "none"

\* The result is the integrity failure, returned before the validity is
\* evaluated and before anything is decrypted.
integrity_failure(result) ==
    /\ ~result.valid
    /\ result.error = "PDF content has been modified"
    /\ result.steps = <<"metadata", "pdf_hash">>
    /\ "decrypted_content" \notin DOMAIN result

\* The result is the validity failure, returned before anything is
\* decrypted.
validity_failure(result) ==
    /\ ~result.valid
    /\ result.error = "Data object is not valid"
    /\ result.steps = <<"metadata", "pdf_hash", "is_valid">>
    /\ "decrypted_content" \notin DOMAIN result

\* valid = True only for a file whose hash is the recorded one, whose object
\* is valid and whose content the key decrypts.
valid_only_if_all_pass(file, owner_private_key, now, result) ==
    result.valid
    => /\ reads_data_object(file)
       /\ records_hash(file)
       /\ sha256(file.bytes) = file.metadata.pdf_hash
       /\ is_valid(from_dict(file.metadata.data_object), now) = "True"
       /\ decrypt_content(from_dict(file.metadata.data_object),
                          owner_private_key).outcome = "returned"

\* An invalid object in a file that passes the hash check gives the
\* validity failure.
invalid_object_fails(file, now, result) ==
    (/\ reads_data_object(file)
     /\ records_hash(file)
     /\ sha256(file.bytes) = file.metadata.pdf_hash
     /\ is_valid(from_dict(file.metadata.data_object), now) = "False")
    => validity_failure(result)

\* C21 as stated: verify_pdf_data_object returns valid = True only if the
\* hash of the file is the recorded one, is_valid() is true and the
\* decryption succeeded; whenever the hash of the file is not the recorded
\* one it returns the integrity failure without evaluating validity or
\* decrypting; for an invalid object it returns the validity failure
\* without decrypting.
C21_ShortCircuit ==
    \A r \in RsaKeys :
        LET result == verify_pdf_data_object(pdf_file, rsa_private_pem(r),
                                             utcnow)
        IN  /\ valid_only_if_all_pass(pdf_file, rsa_private_pem(r), utcnow,
                                      result)
            /\ (records_hash(pdf_file)
                  /\ sha256(pdf_file.bytes) # pdf_file.metadata.pdf_hash)
               => integrity_failure(result)
            /\ invalid_object_fails(pdf_file, utcnow, result)

\* C21 amended: the same, the integrity failure being returned on a hash
\* mismatch of a file from whose metadata a data object was built; the
\* metadata is parsed before the hash is compared, and a file whose data
\* object cannot be built fails with the parsing error whatever its hash.
C21_ShortCircuitAfterParsing ==
    \A r \in RsaKeys :
        LET result == verify_pdf_data_object(pdf_file, rsa_private_pem(r),
                                             utcnow)
        IN  /\ valid_only_if_all_pass(pdf_file, rsa_private_pem(r), utcnow,
                                      result)
            /\ (reads_data_object(pdf_file) /\ records_hash(pdf_file)
                  /\ sha256(pdf_file.bytes) # pdf_file.metadata.pdf_hash)
               => integrity_failure(result)
            /\ (records_hash(pdf_file) /\ ~reads_data_object(pdf_file))
               => (~result.valid /\ result.steps = <<"metadata">>)
            /\ invalid_object_fails(pdf_file, utcnow, result)

\* A file with another hash than the recorded one and an object that is not
\* active was verified, and the integrity failure came back.
C21_Witness ==
    /\ reads_data_object(pdf_file)
    /\ records_hash(pdf_file)
    /\ sha256(pdf_file.bytes) # pdf_file.metadata.pdf_hash
    /\ pdf_file.metadata.data_object.state = "invalid"
    /\ pdf_result # NoResult
    /\ integrity_failure(pdf_result)

(***************************************************************************)
(* The envelope: create seals the content for a public key, and            *)
(* decrypt_content opens it with the private key of the pair.              *)
(***************************************************************************)

\* What decrypt_content gives for an object sealed with content m for the
\* public key of the pair r, under each private key.
opens_only_with(obj, m, r) ==
    \A k \in RsaKeys :
        decrypt_content(obj, rsa_private_pem(k)) =
            IF k = r
            THEN [outcome |-> "returned", content |-> m]
            ELSE [outcome |-> "ValueError"]

Methods ==
    {"verify_owner", "verify_content", "is_valid", "decrypt_content",
     "to_dict"}

\* str(bool)
bool_str(b) == IF b THEN "True" ELSE "False"

\* The fields of the object after is_valid, were is_valid to retire the
\* object it finds not valid.
self_after_retiring(method, obj, now) ==
    IF method = "is_valid" /\ is_valid(obj, now) = "False"
    THEN [obj EXCEPT !.state = "invalid"]
    ELSE obj

\* The fields of the object after a call of the method on it: no method
\* assigns to a field of self (and the dataclass is frozen, line 26), and
\* none changes an item of self.content.
self_after(method, obj, now) == obj

\* DataObject.create called with at most one condition.
CreateObject ==
    /\ data_obj = NoObject
    /\ \E owner_did \in OwnerDidArgs, content \in ContentArgs,
          validity_conditions \in SeqsUpTo(ConditionArgs, 1),
          r \in RsaKeys, aes_key \in AesKeys, iv \in Ivs :
        /\ data_obj' = create(owner_did, "example_data", content,
                              rsa_public_pem(r), validity_conditions,
                              utcnow, aes_key, iv)
        /\ data_owner' = owner_did
        /\ data_ret' = NoCall
        /\ UNCHANGED <<multibase, child_dids, registry_vars, key_dids, utcnow, pdf_vars>>

VerifyOwner ==
    /\ data_obj # NoObject
    /\ \E owner_did \in OwnerDidArgs :
        /\ data_ret' = [op |-> "verify_owner", owner_did |-> owner_did,
                        returned |-> bool_str(verify_owner(data_obj,
                                                           owner_did))]
        /\ data_obj' = self_after("verify_owner", data_obj, utcnow)
        /\ UNCHANGED <<multibase, child_dids, registry_vars, key_dids, data_owner, utcnow, pdf_vars>>

VerifyContent ==
    /\ data_obj # NoObject
    /\ data_ret' = [op |-> "verify_content",
                    returned |-> bool_str(verify_content(data_obj))]
    /\ data_obj' = self_after("verify_content", data_obj, utcnow)
    /\ UNCHANGED <<multibase, child_dids, registry_vars, key_dids, data_owner, utcnow, pdf_vars>>

IsValid ==
    /\ data_obj # NoObject
    /\ data_ret' = [op |-> "is_valid",
                    returned |-> is_valid(data_obj, utcnow)]
    /\ data_obj' = self_after("is_valid", data_obj, utcnow)
    /\ UNCHANGED <<multibase, child_dids, registry_vars, key_dids, data_owner, utcnow, pdf_vars>>

DecryptContent ==
    /\ data_obj # NoObject
    /\ \E r \in RsaKeys :
        /\ data_ret' = [op |-> "decrypt_content",
                        owner_private_key |-> rsa_private_pem(r),
                        decrypted |-> decrypt_content(data_obj,
                                                      rsa_private_pem(r))]
        /\ data_obj' = self_after("decrypt_content", data_obj, utcnow)
        /\ UNCHANGED <<multibase, child_dids, registry_vars, key_dids, data_owner, utcnow, pdf_vars>>

ToDict ==
    /\ data_obj # NoObject
    /\ data_ret' = [op |-> "to_dict", dict |-> to_dict(data_obj)]
    /\ data_obj' = self_after("to_dict", data_obj, utcnow)
    /\ UNCHANGED <<multibase, child_dids, registry_vars, key_dids, data_owner, utcnow, pdf_vars>>

NextMethods ==
    \/ CreateObject
    \/ SetContentItem
    \/ Reload
    \/ Tick
    \/ VerifyOwner
    \/ VerifyContent
    \/ IsValid
    \/ DecryptContent
    \/ ToDict

SpecMethods == Init /\ [][NextMethods]_vars

\* C23: create returns an object whose state is "active", and a call of
\* verify_owner, verify_content, is_valid, decrypt_content or to_dict
\* leaves every field of the object as it was: the state, content_hash
\* (never recomputed and stored), owner_did_hash and all the others.
C23_NoTransition ==
    [][/\ (data_obj = NoObject /\ data_obj' # NoObject)
          => data_obj'.state = "active"
       /\ data_ret'.op \in Methods => data_obj' = data_obj]_vars

\* is_valid was called on an active object whose content no longer has the
\* recorded hash and answered False (a condition is violated): the object
\* is still active, with the hash it was created with.
C23_Witness ==
    /\ data_ret.op = "is_valid"
    /\ data_ret.returned = "False"
    /\ data_obj.state = "active"
    /\ ~verify_content(data_obj)

(***************************************************************************)
(* The multibase text of a public key: encode_multibase                    *)
(* (src/idobjects_did.py lines 31-33, src/did_generator.py lines 26-32)    *)
(* and its decoding in verify_ownership (line 156), with base58 computed   *)
(* as the base58 package computes it.  A byte string is a sequence of      *)
(* numbers in 0..255, a text a sequence of characters.                     *)
(***************************************************************************)

\* The longest byte string encoded.
MaxKeyBytes == 2

\* The bytes the strings are made of.
ByteValues == {0, 1, 57, 58, 59, 128, 255}

\* The Bitcoin alphabet of the base58 package.
Alphabet ==
    <<"1", "2", "3", "4", "5", "6", "7", "8", "9",
      "A", "B", "C", "D", "E", "F", "G", "H", "J", "K", "L", "M", "N",
      "P", "Q", "R", "S", "T", "U", "V", "W", "X", "Y", "Z",
      "a", "b", "c", "d", "e", "f", "g", "h", "i", "j", "k", "m",
      "n", "o", "p", "q", "r", "s", "t", "u", "v", "w", "x", "y", "z">>

RECURSIVE leading(_, _)
\* How many times the item stands at the head of the sequence.
leading(seq, item) ==
    IF seq # <<>> /\ Head(seq) = item
    THEN 1 + leading(Tail(seq), item)
    ELSE 0

RECURSIVE int_from_digits(_, _)
\* int.from_bytes(v, 'big') for base 256, b58decode_int for base 58.
int_from_digits(digits, base) ==
    IF digits = <<>> THEN 0
    ELSE int_from_digits(SubSeq(digits, 1, Len(digits) - 1), base) * base
         + digits[Len(digits)]

RECURSIVE int_to_digits(_, _)
\* The digits of acc, most significant first, none for 0:
\* b58encode_int(acc, default_one=False) for base 58, acc.to_bytes of the
\* shortest length for base 256.
int_to_digits(acc, base) ==
    IF acc = 0 THEN <<>>
    ELSE Append(int_to_digits(acc \div base, base), acc % base)

\* base58.b58encode losing the zero bytes at the head of the string.
b58encode_bytes_as_number(v) ==
    LET digits == int_to_digits(int_from_digits(v, 256), 58)
    IN  [i \in 1..Len(digits) |-> Alphabet[digits[i] + 1]]

\* base58.b58encode(v): one "1" for each zero byte at the head, then the
\* rest as a number in base 58.
b58encode_bytes(v) ==
    LET digits == int_to_digits(int_from_digits(v, 256), 58)
    IN  [i \in 1..leading(v, 0) |-> Alphabet[1]]
        \o [i \in 1..Len(digits) |-> Alphabet[digits[i] + 1]]

\* base58.b58decode(v): one zero byte for each "1" at the head, then the
\* rest as a number in base 256.
b58decode_text(v) ==
    LET digits == [i \in 1..Len(v) |->
                    (CHOOSE d \in 1..58 : Alphabet[d] = v[i]) - 1]
    IN  [i \in 1..leading(v, Alphabet[1]) |-> 0]
        \o int_to_digits(int_from_digits(digits, 58), 256)

\* 'z' + base58.b58encode(key_bytes).decode('ascii')
encode_multibase_text(key_bytes) == <<"z">> \o b58encode_bytes(key_bytes)

\* base58.b58decode(vm["publicKeyMultibase"][1:]) (line 156)
decode_multibase_text(text) == b58decode_text(Tail(text))

\* The byte strings a public key is given as.
KeyBytes == SeqsUpTo(ByteValues, MaxKeyBytes)

\* public_bytes(Raw, Raw) hands out the bytes of a key.
PublicBytes ==
    \E key_bytes \in KeyBytes :
        /\ multibase' = [step |-> "bytes", key_bytes |-> key_bytes]
        /\ UNCHANGED <<registry_vars, key_dids, child_dids, object_vars, pdf_vars>>

\* create_did writes the key into the document.
EncodeMultibase ==
    /\ multibase.step = "bytes"
    /\ multibase' = [step |-> "encoded",
                     key_bytes |-> multibase.key_bytes,
                     publicKeyMultibase |->
                        encode_multibase_text(multibase.key_bytes)]
    /\ UNCHANGED <<registry_vars, key_dids, child_dids, object_vars, pdf_vars>>

\* verify_ownership reads the key from the document.
DecodeMultibase ==
    /\ multibase.step = "encoded"
    /\ multibase' = [step |-> "decoded",
                     key_bytes |-> multibase.key_bytes,
                     publicKeyMultibase |-> multibase.publicKeyMultibase,
                     parent_pub_key |->
                        decode_multibase_text(multibase.publicKeyMultibase)]
    /\ UNCHANGED <<registry_vars, key_dids, child_dids, object_vars, pdf_vars>>

NextMultibase ==
    \/ PublicBytes
    \/ EncodeMultibase
    \/ DecodeMultibase

SpecMultibase == Init /\ [][NextMultibase]_vars

\* C24: the bytes that verify_ownership decodes from the multibase text of
\* a public key are exactly the bytes that were encoded, zero bytes at the
\* head included.
C24_MultibaseRoundTrip ==
    multibase.step = "decoded"
    => multibase.parent_pub_key = multibase.key_bytes

\* A key that begins with a zero byte went through the round trip; its
\* text begins with "z1".
C24_Witness ==
    /\ multibase.step = "decoded"
    /\ Len(multibase.key_bytes) = MaxKeyBytes
    /\ multibase.key_bytes[1] = 0
    /\ multibase.key_bytes[2] # 0
    /\ multibase.publicKeyMultibase[1] = "z"
    /\ multibase.publicKeyMultibase[2] = "1"
    /\ multibase.parent_pub_key = multibase.key_bytes

(***************************************************************************)
(* A file written by create_pdf_data_object and handed, as written, to     *)
(* verify_pdf_data_object.                                                 *)
(***************************************************************************)

\* C25: the file that create_pdf_data_object wrote, verified unmodified
\* with the private key of the owner before the expiration date, gives
\* valid = True and the sealed content as decrypted_content.
C25_CreateThenVerify ==
    \A pdf_content \in SourceBytes, owner_did \in OwnerDidArgs,
       r \in RsaKeys, aes_key \in AesKeys, iv \in Ivs, now \in 0..utcnow :
        pdf_file = create_pdf_data_object(pdf_content, [id |-> owner_did],
                        rsa_public_pem(r), now, aes_key, iv)
        => LET result == verify_pdf_data_object(pdf_file,
                                rsa_private_pem(r), utcnow)
           IN  /\ result.valid
               /\ result.decrypted_content =
                    [pdf_hash |-> sha256(pdf_content),
                     name |-> "pdf_document"]

\* The result is a dict that verify_pdf_data_object returned, and one that
\* reports a failure has an error and no decrypted content.
returned_without_plaintext(result) ==
    /\ "valid" \in DOMAIN result
    /\ "raised" \notin DOMAIN result
    /\ ~result.valid
       => /\ "error" \in DOMAIN result
          /\ "decrypted_content" \notin DOMAIN result
          /\ "data_object" \notin DOMAIN result

\* The file makes verify_pdf_data_object fail under every key, at the time:
\* it has no or unreadable metadata, another hash than the recorded one, or
\* an object for which is_valid does not answer True.
fails_whatever_the_key(file, now) ==
    \/ ~file.exists
    \/ "absent" \in DOMAIN file.metadata
    \/ parse_raises(file.metadata) # "none"
    \/ "pdf_hash" \notin DOMAIN file.metadata
    \/ sha256(file.bytes) # file.metadata.pdf_hash
    \/ is_valid(from_dict(file.metadata.data_object), now) # "True"

\* C26: verify_pdf_data_object raises nothing: for a file without metadata
\* or with metadata it cannot read, with another hash than the recorded
\* one, with an invalid object, with an object on which is_valid raises, or
\* with a key that does not decrypt, it returns valid = False with an error
\* and without decrypted_content.
C26_NeverRaises ==
    \A r \in RsaKeys :
        LET result == verify_pdf_data_object(pdf_file, rsa_private_pem(r),
                                             utcnow)
        IN  /\ returned_without_plaintext(result)
            /\ fails_whatever_the_key(pdf_file, utcnow) => ~result.valid
            /\ (/\ ~fails_whatever_the_key(pdf_file, utcnow)
                /\ decrypt_content(from_dict(pdf_file.metadata.data_object),
                        rsa_private_pem(r)).outcome # "returned")
               => ~result.valid

\* A file that passes the hash check, with an object on which is_valid
\* raises TypeError, was verified: the exception came back as the error.
C26_Witness ==
    /\ pdf_result # NoResult
    /\ ~pdf_result.valid
    /\ pdf_result.error = "TypeError"
    /\ pdf_result.steps = <<"metadata", "pdf_hash", "is_valid">>
    /\ "decrypted_content" \notin DOMAIN pdf_result

\* A file that passes the hash check, with a valid object, was verified
\* with a key that does not decrypt it.
C26_WitnessDecryption ==
    /\ pdf_result # NoResult
    /\ ~pdf_result.valid
    /\ pdf_result.error = "ValueError"
    /\ pdf_result.steps = <<"metadata", "pdf_hash", "is_valid",
                            "decrypt_content">>
    /\ "decrypted_content" \notin DOMAIN pdf_result

(***************************************************************************)
(* create_child_did of the application (src/app.py lines 73-123), next to  *)
(* create_did and generate_did_key: the keys a child is given.             *)
(***************************************************************************)

\* The child indexes entered in the form (line 294).
ChildIndexes == {1, 2}

\* private_bytes(PEM, PKCS8, NoEncryption()) of the key (lines 86-90).
private_bytes_pem_unencrypted(k) == <<"pem-unencrypted", k>>

\* public_bytes(PEM, SubjectPublicKeyInfo) of the public key (lines 92-95).
public_bytes_pem(k) == <<"public-pem", public_bytes(k)>>

\* The key pair that load_pem_private_key reads from a PEM text, or that
\* from_private_bytes reads from a hex text.
loaded_private_key(private_key) == private_key[2]

\* The document create_child_did builds (lines 101-112).
child_did_document(child_did, parent_did, child_public_key) ==
    [id |-> child_did,
     verificationMethod |->
        << [id |-> <<child_did, "#keys-1">>,
            type |-> "Ed25519VerificationKey2018",
            controller |-> child_did,
            publicKeyPem |-> child_public_key] >>,
     authentication |-> << <<child_did, "#keys-1">> >>,
     assertionMethod |-> << <<child_did, "#keys-1">> >>,
     controller |-> parent_did]

\* create_child_did: what it returns is appended to child_dids; the child
\* is given the key pair loaded from parent_private_key.
create_child_did(parent_did, parent_private_key, child_index) ==
    /\ UNCHANGED <<multibase, registry_vars, key_dids, object_vars, pdf_vars>>
    /\ IF load_pem_private_key_raises(parent_private_key)
       THEN child_dids' = child_dids
       ELSE LET private_key == loaded_private_key(parent_private_key)
                child_did == <<parent_did, child_index>>
            IN  child_dids' = Append(child_dids,
                    [did |-> child_did,
                     parent_did |-> parent_did,
                     parent_private_key |-> parent_private_key,
                     document |-> child_did_document(child_did, parent_did,
                                        public_bytes_pem(private_key)),
                     private_key |->
                        private_bytes_pem_unencrypted(private_key)])

CreateChildDid ==
    \E parent_did \in KeyParentDidArgs \ {None},
       parent_private_key \in KeyParentKeyArgs \ {None},
       child_index \in ChildIndexes :
        create_child_did(parent_did, parent_private_key, child_index)

\* As many identifiers as MaxIssued are issued, by any of the three.
issued_in_all == Len(created) + Len(key_dids) + Len(child_dids)

NextChildren ==
    \/ (issued_in_all < MaxIssued /\ CreateDid)
    \/ (issued_in_all < MaxIssued /\ GenerateDidKey)
    \/ (issued_in_all < MaxIssued /\ CreateChildDid)

SpecChildren == Init /\ [][NextChildren]_vars

\* The public keys in the document registered for the DID.
registered_public_keys(did) ==
    IF did \in DOMAIN did_registry /\ "document" \in DOMAIN did_registry[did]
    THEN {b58decode(did_registry[did].document.verificationMethod[i]
                        .publicKeyMultibase[2])
            : i \in 1..Len(did_registry[did].document.verificationMethod)}
    ELSE {}

\* C27: a child issued from a parent has a key pair of its own: the private
\* key returned with it is not the parent's private key, and the public key
\* in its document is not the parent's public key; for the children of
\* create_did and for those of create_child_did.
C27_ChildKeysAreFresh ==
    /\ \A i \in children_by_create_did :
        /\ loaded_private_key(created[i].private_key)
                # loaded_private_key(created[i].parent_private_key)
        /\ created[i].parent_did # created[i].did
           => b58decode(created[i].document.verificationMethod[1]
                            .publicKeyMultibase[2])
                \notin registered_public_keys(created[i].parent_did)
    /\ \A i \in 1..Len(child_dids) :
        /\ loaded_private_key(child_dids[i].private_key)
                # loaded_private_key(child_dids[i].parent_private_key)
        /\ child_dids[i].document.verificationMethod[1].publicKeyPem[2]
                # public_bytes(loaded_private_key(
                                    child_dids[i].parent_private_key))

(***************************************************************************)
(* The children lists of the registry against verify_ownership, and what   *)
(* a create_did call that raises leaves behind, under Spec.                *)
(***************************************************************************)

\* C28: for registered C and P, C is in the children list of P exactly when
\* verify_ownership(C, P) answers True, whatever parent_private_key the
\* create_did calls were given.
C28_ChildrenAgreeWithProofs ==
    \A child_did \in DOMAIN did_registry, parent_did \in DOMAIN did_registry :
        (child_did \in children_of(parent_did))
        <=> (verify_ownership(child_did, parent_did) = "True")

\* C29: a create_did call that raises leaves the registry as it was: no
\* entry added, no children list changed.
C29_FailedCallLeavesRegistry ==
    [][(ret'.op = "create_did" /\ ret'.outcome # "returned"
            /\ clock' # clock)
       => did_registry' = did_registry]_vars

(***************************************************************************)
(* What a reader sees of the registry while create_did calls are in        *)
(* progress, under SpecThreads.                                            *)
(***************************************************************************)

\* C30: in every state, those between the statements of a create_did call
\* included, a DID in the children list of an entry is registered with a
\* document: resolve_did of it does not return the not-found marker.
C30_ListedChildrenAreRegistered ==
    \A parent_did \in DOMAIN did_registry :
        \A child_did \in children_of(parent_did) :
            /\ issued(child_did)
            /\ resolve_did(child_did).outcome = "returned"
            /\ "error" \notin DOMAIN resolve_did(child_did).didDocument

====
